---------------------------- MODULE Spec2Model ----------------------------
(***************************************************************************)
(* A model of GitNexus' LLM mediation layer:                               *)
(*   - streamAgentResponse (src/src/core/llm/agent.ts), the async          *)
(*     generator that translates the agent's event stream into chunks;     *)
(*   - the Graph RAG tools (src/unnamed/part_000, src/src/core/llm/        *)
(*     tools.ts): execute_cypher, execute_vector_cypher, semantic_search,  *)
(*     semantic_search_with_context.                                       *)
(*                                                                         *)
(* JavaScript values are records [t |-> type tag, v |-> sequence of string *)
(* atoms]; a string's v is its text (<<>> is the empty string).            *)
(***************************************************************************)
EXTENDS Integers, Sequences, FiniteSets, TLC

VARIABLES
    \* ---- streamAgentResponse ----
    gen,        \* position of the generator body
    upstream,   \* state of the agent.streamEvents() iterator
    events,     \* upstream events consumed so far, in arrival order
    clockAt,    \* Date.now() as it stood when each event was handled
    chunks,     \* chunks yielded so far, in emission order
    now,        \* the wall clock, in milliseconds
    thrown,     \* what the upstream threw, once it has
    pulls,      \* number of next() calls the consumer has made
    abandoned,  \* the consumer called return() on the generator
    \* ---- the Graph RAG tools ----
    embeddingReady, \* what isEmbeddingReady() reports (process-wide)
    embedderReady,  \* what isEmbedderReady() reports (the embedder module)
    tool,       \* the tool invoked last
    args,       \* its arguments
    calls,      \* the capabilities that invocation called, in order
    reply,      \* what the backend answered to that invocation's query
    outcome,    \* what the invocation returned, or that it threw
    \* ---- createGraphRAGAgent and invokeAgent ----
    agent,      \* what createGraphRAGAgent(config, ...) came to
    answer      \* what the last invokeAgent(agent, messages) came to

streamVars == <<gen, upstream, events, clockAt, chunks, now, thrown, pulls,
                abandoned>>

toolVars == <<embeddingReady, embedderReady, tool, args, calls, reply, outcome>>

agentVars == <<agent, answer>>

vars == <<streamVars, toolVars, agentVars>>

--------------------------------------------------------------------------
(* Bounds of the model *)

MaxEvents == 3
MaxClock == 1
MaxTemplateLen == 2   \* tokens in a Cypher text
MaxExtraRows == 2     \* rows a result set may hold beyond the display cap
MaxSemRows == 2       \* rows a semantic search may return
MaxMessages == 2
MaxCodeRows == 2      \* messages in the conversation agent.invoke resolves to

--------------------------------------------------------------------------
(* JavaScript values *)

Undef == [t |-> "undefined", v |-> <<>>]
Str(s) == [t |-> "string", v |-> s]
Num(s) == [t |-> "number", v |-> s]
Obj(s) == [t |-> "object", v |-> s]
Null == [t |-> "null", v |-> <<>>]
Bool(b) == [t |-> "boolean", v |-> IF b THEN <<"true">> ELSE <<"false">>]
EmptyStr == Str(<<>>)
EmptyObj == Obj(<<>>)
\* An object JSON.stringify cannot serialise (a cycle, a BigInt inside).
Cyclic == [t |-> "cyclic", v |-> <<>>]

\* JavaScript truthiness, as `||` and `if (content && ...)` test it.
Truthy(x) ==
    CASE x.t \in {"undefined", "null"} -> FALSE
      [] x.t = "boolean" -> x.v = <<"true">>
      [] x.t = "string" -> x.v # <<>>
      [] x.t = "number" -> x.v # <<"0">>
      [] OTHER -> TRUE

\* a || b || c
Or3(a, b, c) == IF Truthy(a) THEN a ELSE IF Truthy(b) THEN b ELSE c

\* a ?? b
Nullish(a, b) == IF a.t \in {"undefined", "null"} THEN b ELSE a

\* JSON.stringify(x) throws a TypeError on a value it cannot serialise.
JSONStringifyThrows(x) == x.t = "cyclic"

\* JSON.stringify(x): undefined stays undefined, a number prints its digits,
\* a structured value is serialised.
JSONStringify(x) ==
    CASE x.t = "undefined" -> Undef
      [] x.t = "number" -> Str(x.v)
      [] x.t = "string" -> Str(<<"\"">> \o x.v \o <<"\"">>)
      [] OTHER -> Str(<<"{">> \o x.v \o <<"}">>)

\* String(x)
JSString(x) ==
    CASE x.t = "undefined" -> Str(<<"undefined">>)
      [] x.t = "null" -> Str(<<"null">>)
      [] x.t = "object" -> Str(<<"[object Object]">>)
      [] OTHER -> Str(x.v)

\* Date.now().toString() at clock reading t: the digits, in unary.
DateNowString(t) == Str(<<"ts">> \o [i \in 1..t |-> "I"])

--------------------------------------------------------------------------
(* Upstream events of agent.streamEvents(..., {version: 'v2'}) *)

ToolStart(cid, ccid, input) ==
    [event |-> "on_tool_start", name |-> "execute_cypher", tool_call_id |-> cid,
     toolCallId |-> ccid, input |-> input, output |-> Undef, content |-> Undef]
ToolEnd(cid, ccid, output) ==
    [event |-> "on_tool_end", name |-> "execute_cypher", tool_call_id |-> cid,
     toolCallId |-> ccid, input |-> Undef, output |-> output, content |-> Undef]
ModelStream(content) ==
    [event |-> "on_chat_model_stream", name |-> "model", tool_call_id |-> Undef,
     toolCallId |-> Undef, input |-> Undef, output |-> Undef, content |-> content]
OtherEvent ==
    [event |-> "on_chain_start", name |-> "agent", tool_call_id |-> Undef,
     toolCallId |-> Undef, input |-> Undef, output |-> Undef, content |-> Undef]

IdA == Str(<<"a">>)
IdB == Str(<<"b">>)

ToolStartEvents ==
    { ToolStart(Undef, Undef, Obj(<<"in">>)),
      ToolStart(EmptyStr, Undef, Obj(<<"in">>)),
      ToolStart(IdA, Undef, Obj(<<"in">>)),
      ToolStart(Undef, IdB, Obj(<<"in">>)),
      ToolStart(IdA, IdB, Undef) }
ToolEndEvents ==
    { ToolEnd(Undef, Undef, Str(<<"out">>)),
      ToolEnd(IdA, Undef, Undef),
      ToolEnd(Undef, IdB, Obj(<<"rows">>)),
      ToolEnd(IdA, IdB, Cyclic) }
ModelStreamEvents ==
    { ModelStream(Str(<<"tok">>)), ModelStream(EmptyStr), ModelStream(Num(<<"7">>)),
      ModelStream(Obj(<<"parts">>)), ModelStream(Undef) }
Events == ToolStartEvents \cup ToolEndEvents \cup ModelStreamEvents \cup {OtherEvent}

\* What the upstream may throw: Error objects (a timeout among them) and
\* values that are no Error.
ErrorObj(msg) == [isError |-> TRUE, message |-> Str(msg), value |-> Undef]
NonError(val) == [isError |-> FALSE, message |-> Undef, value |-> val]
Throwables ==
    { ErrorObj(<<"timeout">>), NonError(Str(<<"oops">>)), NonError(Undef) }
NothingThrown == [isError |-> FALSE, message |-> Undef, value |-> Str(<<"none">>)]

--------------------------------------------------------------------------
(* Chunks (AgentStreamChunk) *)

NoToolCall == [id |-> Undef, name |-> "", args |-> Undef, result |-> Undef, status |-> ""]

ToolCallChunk(e, t) ==
    [type |-> "tool_call",
     toolCall |-> [id |-> Or3(e.tool_call_id, e.toolCallId, DateNowString(t)),
                   name |-> e.name,
                   args |-> Nullish(e.input, EmptyObj),
                   result |-> Undef,
                   status |-> "running"],
     content |-> Undef, error |-> Undef]

\* Mutant: a tool_end event without an id gets an id made from the clock, as
\* a tool_start event does.
ToolResultChunkClockId(e) ==
    [type |-> "tool_result",
     toolCall |-> [id |-> Or3(e.tool_call_id, e.toolCallId, DateNowString(0)),
                   name |-> e.name,
                   args |-> EmptyObj,
                   result |-> IF e.output.t = "string" THEN e.output
                              ELSE JSONStringify(e.output),
                   status |-> "completed"],
     content |-> Undef, error |-> Undef]

ToolResultChunk(e) ==
    [type |-> "tool_result",
     toolCall |-> [id |-> Or3(e.tool_call_id, e.toolCallId, EmptyStr),
                   name |-> e.name,
                   args |-> EmptyObj,
                   result |-> IF e.output.t = "string" THEN e.output
                              ELSE JSONStringify(e.output),
                   status |-> "completed"],
     content |-> Undef, error |-> Undef]

ContentChunk(e) ==
    [type |-> "content", toolCall |-> NoToolCall, content |-> e.content, error |-> Undef]

DoneChunk == [type |-> "done", toolCall |-> NoToolCall, content |-> Undef, error |-> Undef]

\* Mutant: the message is always taken with String(error), which prefixes an
\* Error's message with its name.
ErrorMessageViaString(err) ==
    IF err.isError THEN Str(<<"Error: ">> \o err.message.v) ELSE JSString(err.value)

\* const message = error instanceof Error ? error.message : String(error)
ErrorMessage(err) == IF err.isError THEN err.message ELSE JSString(err.value)

ErrorChunk(err) ==
    [type |-> "error", toolCall |-> NoToolCall, content |-> Undef,
     error |-> ErrorMessage(err)]

\* Whether the loop body throws on e: the tool output cannot be serialised.
TranslateThrows(e) ==
    e.event = "on_tool_end" /\ e.output.t # "string" /\ JSONStringifyThrows(e.output)

SerialiseError == ErrorObj(<<"Converting circular structure to JSON">>)

\* Mutant: a model chunk's content is yielded whenever it is a string, the
\* empty string too.
TranslateEventAnyString(e, t) ==
    CASE e.event = "on_tool_start" -> <<ToolCallChunk(e, t)>>
      [] e.event = "on_tool_end" ->
            IF TranslateThrows(e) THEN <<>> ELSE <<ToolResultChunk(e)>>
      [] e.event = "on_chat_model_stream" ->
            IF e.content.t = "string" THEN <<ContentChunk(e)>> ELSE <<>>
      [] OTHER -> <<>>

\* The body of the for-await loop for one event: the chunks it yields, as a
\* sequence of length 0 or 1, with Date.now() reading t.
TranslateEvent(e, t) ==
    CASE e.event = "on_tool_start" -> <<ToolCallChunk(e, t)>>
      [] e.event = "on_tool_end" ->
            IF TranslateThrows(e) THEN <<>> ELSE <<ToolResultChunk(e)>>
      [] e.event = "on_chat_model_stream" ->
            IF Truthy(e.content) /\ e.content.t = "string"
            THEN <<ContentChunk(e)>> ELSE <<>>
      [] OTHER -> <<>>

\* Whether handling e reads the clock (the fallback of the id).
ReadsClock(e) ==
    e.event = "on_tool_start" /\ ~Truthy(e.tool_call_id) /\ ~Truthy(e.toolCallId)

\* Mutant: chunks are collected newest first.
EmitFront(cs, c) == <<c>> \o cs

\* yield: the chunk goes to the consumer, after every chunk yielded before.
Emit(cs, c) == Append(cs, c)

IsTerminal(c) == c.type \in {"done", "error"}

--------------------------------------------------------------------------
(* streamAgentResponse: the generator and its consumer *)

StreamInit ==
    /\ gen = "created"
    /\ upstream = "unopened"
    /\ events = <<>>
    /\ clockAt = <<>>
    /\ chunks = <<>>
    /\ now = 0
    /\ thrown = NothingThrown
    /\ pulls = 0
    /\ abandoned = FALSE

\* Mutant: the body keeps running past a yield (an eager producer).
BodyMayRunEager == gen \in {"running", "suspended"}

\* The body of an async generator runs only between a next() of the consumer
\* and the following yield (or the end of the body).
BodyMayRun == gen = "running"

\* Mutant: the done chunk is yielded after the try/catch, so also on failure.
CatchThenDone(err) ==
    /\ thrown' = err
    /\ chunks' = Emit(Emit(chunks, ErrorChunk(err)), DoneChunk)
    /\ gen' = "atError"

\* catch (error) { ... yield {type: 'error', error: message} }
Catch(err) ==
    /\ thrown' = err
    /\ chunks' = Emit(chunks, ErrorChunk(err))
    /\ gen' = "atError"

\* The consumer calls next().  A generator not yet started begins its body; one
\* suspended at a yield resumes; one suspended at its last yield completes.
ConsumerNext ==
    /\ ~abandoned
    /\ gen \in {"created", "suspended", "atDone", "atError"}
    /\ gen' = IF gen \in {"created", "suspended"} THEN "running" ELSE "finished"
    /\ pulls' = pulls + 1
    /\ UNCHANGED <<upstream, events, clockAt, chunks, now, thrown, abandoned, toolVars, agentVars>>

\* const stream = await agent.streamEvents(...): the stream opens, or the call
\* throws into the catch block.
OpenStream ==
    /\ BodyMayRun
    /\ upstream = "unopened"
    /\ \/ /\ upstream' = "open"
          /\ UNCHANGED <<gen, chunks, thrown>>
       \/ \E err \in Throwables :
             /\ upstream' = "threw"
             /\ Catch(err)
    /\ UNCHANGED <<events, clockAt, now, pulls, abandoned, toolVars, agentVars>>

\* One iteration of `for await (const event of stream)`: the next event
\* arrives and is translated; the generator suspends if it yields a chunk.
PullEvent ==
    /\ BodyMayRun
    /\ upstream = "open"
    /\ Len(events) < MaxEvents
    /\ \E e \in Events :
         \E t \in (IF ReadsClock(e) THEN now..MaxClock ELSE {now}) :
            LET out == TranslateEvent(e, t) IN
            /\ events' = Append(events, e)
            /\ clockAt' = Append(clockAt, t)
            /\ now' = t
            /\ IF TranslateThrows(e)
               THEN \* the exception leaves the loop, which closes the upstream
                    \* iterator, and lands in the catch block
                    /\ Catch(SerialiseError)
                    /\ upstream' = "closed"
               ELSE IF out = <<>>
               THEN UNCHANGED <<chunks, gen, thrown, upstream>>
               ELSE /\ chunks' = Emit(chunks, out[1])
                    /\ gen' = "suspended"
                    /\ UNCHANGED <<thrown, upstream>>
    /\ UNCHANGED <<pulls, abandoned, toolVars, agentVars>>

\* The upstream is exhausted: the loop ends and the body yields {type: 'done'}.
UpstreamEnds ==
    /\ BodyMayRun
    /\ upstream = "open"
    /\ upstream' = "exhausted"
    /\ chunks' = Emit(chunks, DoneChunk)
    /\ gen' = "atDone"
    /\ UNCHANGED <<events, clockAt, now, thrown, pulls, abandoned, toolVars, agentVars>>

\* The upstream throws while the loop awaits its next event.
UpstreamThrows ==
    /\ BodyMayRun
    /\ upstream = "open"
    /\ \E err \in Throwables :
         /\ upstream' = "threw"
         /\ Catch(err)
    /\ UNCHANGED <<events, clockAt, now, pulls, abandoned, toolVars, agentVars>>

\* The consumer abandons the sequence: return() on the suspended generator.
\* Its body completes at the yield where it stands; inside the loop, for-await
\* closes the upstream iterator on the way out.  No catch block runs.
ConsumerReturn ==
    /\ ~abandoned
    /\ gen \in {"created", "suspended", "atDone", "atError"}
    /\ abandoned' = TRUE
    /\ gen' = "finished"
    /\ upstream' = IF gen = "suspended" THEN "closed" ELSE upstream
    /\ UNCHANGED <<events, clockAt, chunks, now, thrown, pulls, toolVars, agentVars>>

StreamNext ==
    \/ ConsumerNext
    \/ OpenStream
    \/ PullEvent
    \/ UpstreamEnds
    \/ UpstreamThrows
    \/ ConsumerReturn

--------------------------------------------------------------------------
(* Properties of streamAgentResponse *)

Count(seq, P(_)) == Cardinality({i \in 1..Len(seq) : P(seq[i])})
IsDone(c) == c.type = "done"
IsError(c) == c.type = "error"
NonTerminal(c) == ~IsTerminal(c)
Failed == thrown # NothingThrown
UpstreamOver == upstream = "exhausted" \/ Failed

\* C1: a terminal chunk (done or error) is only ever the last chunk emitted, so
\* there is at most one and nothing follows it; and once the upstream has ended
\* or thrown, the chunk sequence ends with a terminal chunk: exactly one.
C1_OneTerminalChunkLast ==
    /\ \A i \in 1..Len(chunks) : IsTerminal(chunks[i]) => i = Len(chunks)
    /\ UpstreamOver =>
          /\ chunks # <<>>
          /\ IsTerminal(chunks[Len(chunks)])
          /\ Count(chunks, IsTerminal) = 1

\* C1 witness: the upstream threw after a tool call, its result and a token; the
\* consumer has read the sequence to its end.
C1_Witness ==
    /\ upstream = "threw"
    /\ gen = "finished"
    /\ ~abandoned
    /\ Len(chunks) = 4
    /\ chunks[1].type = "tool_call"
    /\ chunks[2].type = "tool_result"
    /\ chunks[3].type = "content"

\* The chunk type an upstream event is to produce ("" for none).  A tool
\* output that cannot be turned into a string produces no chunk of its own:
\* its handling fails, and the failure ends the stream (C3).
ExpectedType(e) ==
    CASE e.event = "on_tool_start" -> "tool_call"
      [] e.event = "on_tool_end" -> IF e.output.t = "cyclic" THEN "" ELSE "tool_result"
      [] e.event = "on_chat_model_stream" /\ e.content.t = "string" /\ e.content.v # <<>>
            -> "content"
      [] OTHER -> ""

\* The translations of evs[1..n], read at clock readings clk[1..n], in order.
RECURSIVE TranslationOf(_, _, _)
TranslationOf(evs, clk, n) ==
    IF n = 0 THEN <<>>
    ELSE TranslationOf(evs, clk, n - 1) \o TranslateEvent(evs[n], clk[n])

\* C2: at every moment the non-terminal chunks emitted so far are exactly the
\* translations of the upstream events consumed so far, in arrival order, one
\* chunk at most per event and none for events of other kinds: nothing is held
\* back, batched or reordered.
C2_ChunksInArrivalOrder ==
    LET body == SelectSeq(chunks, NonTerminal)
        kinds == SelectSeq([i \in 1..Len(events) |-> ExpectedType(events[i])],
                           LAMBDA k : k # "")
    IN /\ body = TranslationOf(events, clockAt, Len(events))
       /\ [i \in 1..Len(body) |-> body[i].type] = kinds
       /\ \A i \in 1..Len(chunks) : NonTerminal(chunks[i]) => body[i] = chunks[i]

\* C2 witness: a token, a tool call and a tool result arrived interleaved with
\* an event that yields nothing, and were emitted in that order.
C2_Witness ==
    /\ Len(events) = 3
    /\ events[1].event = "on_chat_model_stream"
    /\ events[2].event = "on_tool_start"
    /\ events[3].event = "on_tool_end"
    /\ Len(chunks) = 3
    /\ chunks[1].type = "content"
    /\ chunks[3].type = "tool_result"

\* C3: once an exception has been raised while the upstream is consumed (by
\* the upstream, or by the handling of one of its events) there is exactly one
\* error chunk, the last chunk, carrying the failure's message (an Error's message, else the thrown
\* value as a string), there is no done chunk, the generator is suspended at
\* that chunk or finished (the exception went nowhere else), and no further
\* upstream event is consumed; once the upstream is exhausted there is exactly
\* one done chunk and no error chunk.
C3_State ==
    /\ Failed =>
          /\ Count(chunks, IsError) = 1
          /\ Count(chunks, IsDone) = 0
          /\ chunks[Len(chunks)].type = "error"
          /\ thrown.isError => chunks[Len(chunks)].error = thrown.message
          /\ thrown.value = Str(<<"oops">>) => chunks[Len(chunks)].error = Str(<<"oops">>)
          /\ (~thrown.isError /\ thrown.value = Undef) =>
                chunks[Len(chunks)].error = Str(<<"undefined">>)
          /\ gen \in {"atError", "finished"}
          /\ upstream \in {"threw", "closed"}
    /\ upstream = "exhausted" =>
          /\ Count(chunks, IsDone) = 1
          /\ Count(chunks, IsError) = 0
          /\ ~Failed
    /\ (upstream # "exhausted" /\ ~Failed) => Count(chunks, IsTerminal) = 0

C3_ErrorOrDone ==
    /\ []C3_State
    /\ [][Failed => (events' = events /\ chunks' = chunks /\ upstream' = upstream
                      /\ thrown' = thrown)]_vars

\* C3 witness: a timeout was thrown after two events had been consumed.
C3_Witness ==
    /\ upstream = "threw"
    /\ thrown = ErrorObj(<<"timeout">>)
    /\ Len(events) = 2
    /\ chunks[Len(chunks)].error = Str(<<"timeout">>)

SameCall(e1, e2) == e1.tool_call_id = e2.tool_call_id /\ e1.toolCallId = e2.toolCallId
UpstreamPairsToolEvents ==
    \A i \in 1..Len(events) :
        events[i].event = "on_tool_end" =>
            /\ \E j \in 1..(i - 1) :
                  events[j].event = "on_tool_start" /\ SameCall(events[j], events[i])
            /\ \A k \in (i + 1)..Len(events) :
                  ~(events[k].event = "on_tool_start" /\ SameCall(events[k], events[i]))

\* C16 as stated, for an upstream that pairs its tool events: a tool_result
\* chunk for an id comes only after a tool_call chunk for that id, and no
\* tool_call chunk for the id comes after it.
C16_AsStated ==
    UpstreamPairsToolEvents =>
        \A i \in 1..Len(chunks) :
            chunks[i].type = "tool_result" =>
                /\ \E j \in 1..(i - 1) :
                      /\ chunks[j].type = "tool_call"
                      /\ chunks[j].toolCall.status = "running"
                      /\ chunks[j].toolCall.id = chunks[i].toolCall.id
                /\ \A k \in (i + 1)..Len(chunks) :
                      ~(/\ chunks[k].type = "tool_call"
                        /\ chunks[k].toolCall.id = chunks[i].toolCall.id)

\* The id of the chunk was made from the clock.
Synthesized(c) ==
    /\ c.type = "tool_call"
    /\ c.toolCall.id.v # <<>>
    /\ Head(c.toolCall.id.v) = "ts"

\* C17 as stated: no two tool_call chunks carry the same synthesized id.
C17_AsStated ==
    \A i, j \in 1..Len(chunks) :
        (i < j /\ Synthesized(chunks[i]) /\ Synthesized(chunks[j])) =>
            chunks[i].toolCall.id # chunks[j].toolCall.id

\* C18: whenever an on_chat_model_stream event is consumed, a content chunk
\* carrying its text is emitted if its content is a non-empty string, and
\* otherwise (empty, missing, numeric or structured content) no chunk is
\* emitted and nothing fails: the generator goes on with the next event.
C18_Step ==
    (/\ Len(events') = Len(events) + 1
     /\ events'[Len(events')].event = "on_chat_model_stream") =>
        LET e == events'[Len(events')] IN
        IF e.content.t = "string" /\ e.content.v # <<>>
        THEN /\ Len(chunks') = Len(chunks) + 1
             /\ SubSeq(chunks', 1, Len(chunks)) = chunks
             /\ chunks'[Len(chunks')].type = "content"
             /\ chunks'[Len(chunks')].content = e.content
             /\ thrown' = thrown
        ELSE /\ chunks' = chunks
             /\ thrown' = thrown
             /\ gen' = gen
             /\ upstream' = upstream

C18_ContentIffNonEmptyString == [][C18_Step]_vars

\* C18 witness: a numeric, an empty and a textual content arrived; the one
\* chunk emitted is the text, and nothing has failed.
C18_Witness ==
    /\ Len(events) = 3
    /\ events[1] = ModelStream(Num(<<"7">>))
    /\ events[2] = ModelStream(EmptyStr)
    /\ events[3] = ModelStream(Str(<<"tok">>))
    /\ Len(chunks) = 1
    /\ chunks[1].type = "content"
    /\ chunks[1].content = Str(<<"tok">>)
    /\ ~Failed

\* C19 as stated: every on_tool_end event consumed has its tool_result chunk,
\* and every tool_result chunk has status completed, empty args and a string
\* for its result.
C19_AsStated ==
    /\ \A i \in 1..Len(chunks) :
          chunks[i].type = "tool_result" =>
              /\ chunks[i].toolCall.status = "completed"
              /\ chunks[i].toolCall.args = EmptyObj
              /\ chunks[i].toolCall.result.t = "string"
    /\ Count(events, LAMBDA e : e.event = "on_tool_end")
          = Count(chunks, LAMBDA c : c.type = "tool_result")

--------------------------------------------------------------------------
(* The Graph RAG tools: texts and inputs *)

DisplayCap == 50          \* results.slice(0, 50)
ConnectionCap == 15       \* g.connections.slice(0, 15)
VectorDim == 384          \* CAST([...] AS FLOAT[384])

NoResultsText == "Query returned no results."
ResultsHeaderText == "Query returned ${n} results:"
CypherErrorText == "Cypher query error: ${message}\n\nPlease check your query syntax and try again."
VectorUnavailableText ==
    "Vector Cypher is not available. Embeddings have not been generated yet."
InvalidTemplateText ==
    "Invalid input: your Cypher must include the placeholder '{{QUERY_VECTOR}}' where a FLOAT[384] vector should go."
VectorErrorText == "Vector Cypher error: ${message}\n\nTip: ..."
SearchUnavailableText ==
    "Semantic search is not available. Embeddings have not been generated yet. Please use execute_cypher tool for structured queries instead."
SearchNoMatchText == "No code found matching \"${query}\". Try a different search term or use execute_cypher for structured queries."
SearchFoundText == "Found ${n} semantically similar code elements:"
SearchErrorText == "Semantic search error: ${message}"
ContextNoMatchText == "No code found matching \"${query}\". Try a different search term."
ContextFoundText == "Found ${groups} code elements with ${n} total connections:"
ContextErrorText == "Search with context error: ${message}"

\* A Cypher text is a sequence of tokens: plain text, the placeholder as the
\* tool documents it, the placeholder with blanks inside its braces, or (after
\* injection) the vector literal.
Tok(k) == [kind |-> k, vec |-> <<>>, dim |-> 0]
TextTok == Tok("text")
PlaceholderTok == Tok("{{QUERY_VECTOR}}")
SpacedPlaceholderTok == Tok("{{ QUERY_VECTOR }}")
TemplateToks == {TextTok, PlaceholderTok, SpacedPlaceholderTok}

SeqsUpTo(S, n) == UNION {[1..k -> S] : k \in 0..n}
CypherTexts == SeqsUpTo(TemplateToks, MaxTemplateLen)
QueryTexts == {<<"auth">>, <<"parse">>}

\* What embedText(query) may resolve to, as embeddingToArray gives it.
Vectors == {<<1, 2>>, <<3, 4>>}

\* Rows of a result set.  The backend answers with arrays (positional rows),
\* objects (named rows), or values JSON.stringify cannot serialise (a cyclic
\* object, a BigInt cell).
RowAt(seed, bad, i) ==
    [shape |-> IF i = bad THEN "cyclic"
               ELSE IF (i + seed) % 2 = 0 THEN "array" ELSE "object",
     cells |-> <<seed, i>>]

\* A result set is described by its size, the parity that decides which rows
\* are arrays, and the position of its one unserialisable row (0: none).
RowCounts == (0..2) \cup ((DisplayCap - 1)..(DisplayCap + MaxExtraRows))
BadPositions == {0, 1, DisplayCap, DisplayCap + 1}
ResultSets == [n : RowCounts, seed : {0, 1}, bad : BadPositions]
Rows(rs) == [i \in 1..rs.n |-> RowAt(rs.seed, rs.bad, i)]

\* Replies of executeQuery: rows, or a rejection.  `hits` holds the rows a
\* semantic search resolved to (HitsReply).
NoReply ==
    [kind |-> "none", rs |-> [n |-> 0, seed |-> 0, bad |-> 0], err |-> NothingThrown,
     hits |-> <<>>]
RowsReply(rs) == [NoReply EXCEPT !.kind = "rows", !.rs = rs]
ThrowReply(err) == [NoReply EXCEPT !.kind = "throws", !.err = err]
\* What semanticSearch / semanticSearchWithContext resolved to.
HitsReply(rows) == [NoReply EXCEPT !.kind = "hits", !.hits = rows]
QueryReplies == {RowsReply(rs) : rs \in ResultSets} \cup {ThrowReply(e) : e \in Throwables}

\* isEmbeddingReady(): the probe reports the flag, or fails.
Probes == {"reports", "throws"}
ProbeError == ErrorObj(<<"worker gone">>)

\* A capability call, as the call log records it, with how it ended.
Call(fn) ==
    [fn |-> fn, device |-> "", text |-> <<>>, cypher |-> <<>>, k |-> Undef,
     third |-> Undef, result |-> ""]
CallProbe(probe, flag) ==
    [Call("isEmbeddingReady") EXCEPT
        !.result = IF probe = "throws" THEN "throws" ELSE IF flag THEN "true" ELSE "false"]
CallInit(device, o) == [Call("initEmbedder") EXCEPT !.device = device, !.result = o]
CallEmbed(query, ok) ==
    [Call("embedText") EXCEPT !.text = query, !.result = IF ok THEN "ok" ELSE "rejects"]
CallQuery(cypher) == [Call("executeQuery") EXCEPT !.cypher = cypher]
CallSearch(fn, query, k, third) ==
    [Call(fn) EXCEPT !.text = query, !.k = k, !.third = third]

\* What a tool's execution function ends with: a returned text, or an exception.
Returned(text) ==
    [status |-> "returned", text |-> text, n |-> 0, groups |-> 0, lines |-> <<>>,
     note |-> <<>>, message |-> Undef]
ReturnedError(text, msg) == [Returned(text) EXCEPT !.message = msg]
Threw(err) ==
    [status |-> "threw", text |-> "", n |-> 0, groups |-> 0, lines |-> <<>>, note |-> <<>>,
     message |-> IF err.isError THEN err.message ELSE err.value]
NoOutcome == [Returned("") EXCEPT !.status = "none"]

--------------------------------------------------------------------------
(* Result formatting, as execute_cypher and execute_vector_cypher do it *)

\* `[${i + 1}] ${row.join(', ')}` for an array, `[${i + 1}] ${JSON.stringify(row)}`
\* otherwise.
RenderRow(row, i) ==
    [idx |-> i,
     form |-> IF row.shape = "array" THEN "join" ELSE "json",
     cells |-> row.cells]

\* JSON.stringify throws a TypeError on a cyclic object or a BigInt.
RenderThrows(row) == row.shape = "cyclic"

\* results.slice(0, cap)
Slice(rows, cap) == SubSeq(rows, 1, IF Len(rows) < cap THEN Len(rows) ELSE cap)


\* results.length > 50 ? `\n... (${results.length - 50} more results truncated)` : ''
\* The note is <<count>>, the empty string <<>>.
TruncationNote(n) == IF n > DisplayCap THEN <<n - DisplayCap>> ELSE <<>>

\* Mutant: the empty result set is not told apart; it gets the header too.
FormatRowsNoSentinel(rows) ==
    [threw |-> FALSE, err |-> NothingThrown,
     out |-> [Returned(ResultsHeaderText) EXCEPT
                !.n = Len(rows),
                !.lines = [i \in 1..Len(Slice(rows, DisplayCap)) |->
                             [idx |-> i, form |-> "json", cells |-> rows[i].cells]],
                !.note = IF Len(rows) > DisplayCap
                         THEN <<Len(rows) - DisplayCap>> ELSE <<>>]]

\* The return statements of the try block once executeQuery has resolved; an
\* exception of the map callback leaves the block.
FormatRows(rows) ==
    IF Len(rows) = 0 THEN [threw |-> FALSE, err |-> NothingThrown,
                           out |-> Returned(NoResultsText)]
    ELSE LET shown == Slice(rows, DisplayCap) IN
         IF \E i \in 1..Len(shown) : RenderThrows(shown[i])
         THEN [threw |-> TRUE, err |-> SerialiseError, out |-> NoOutcome]
         ELSE [threw |-> FALSE, err |-> NothingThrown,
               out |-> [Returned(ResultsHeaderText) EXCEPT
                          !.n = Len(rows),
                          !.lines = [i \in 1..Len(shown) |-> RenderRow(shown[i], i)],
                          !.note = TruncationNote(Len(rows))]]

\* const message = error instanceof Error ? error.message : String(error)
ToolErrorMessage(err) == IF err.isError THEN err.message ELSE JSString(err.value)

\* The query's reply, formatted, with exceptions turned into the tool's error
\* text by its catch block.
AnswerOf(rep, errorText) ==
    IF rep.kind = "throws" THEN ReturnedError(errorText, ToolErrorMessage(rep.err))
    ELSE LET f == FormatRows(Rows(rep.rs)) IN
         IF f.threw THEN ReturnedError(errorText, ToolErrorMessage(f.err)) ELSE f.out

--------------------------------------------------------------------------
(* execute_cypher *)

ToolArgs(query, cypher, limit) ==
    [query |-> query, cypher |-> cypher, limit |-> limit, includeExamples |-> Undef,
     hops |-> Undef, nodeId |-> <<>>]

ToolInit ==
    /\ embeddingReady \in BOOLEAN
    /\ embedderReady \in BOOLEAN
    /\ tool = "none"
    /\ args = ToolArgs(<<>>, <<>>, Undef)
    /\ calls = <<>>
    /\ reply = NoReply
    /\ outcome = NoOutcome

\* The agent loop runs one tool call at a time: a tool is invoked when no
\* invocation is under way.
Idle == tool = "none"

\* Mutant: a failed query is issued a second time before the tool answers.
ExecuteCypherRetrying ==
    /\ Idle
    /\ \E q \in CypherTexts, rep \in QueryReplies :
        /\ tool' = "execute_cypher"
        /\ args' = ToolArgs(<<>>, q, Undef)
        /\ calls' = IF rep.kind = "throws" THEN <<CallQuery(q), CallQuery(q)>>
                     ELSE <<CallQuery(q)>>
        /\ reply' = rep
        /\ outcome' = AnswerOf(rep, CypherErrorText)
        /\ UNCHANGED <<embeddingReady, embedderReady, streamVars, agentVars>>

ExecuteCypher ==
    /\ Idle
    /\ \E q \in CypherTexts, rep \in QueryReplies :
        /\ tool' = "execute_cypher"
        /\ args' = ToolArgs(<<>>, q, Undef)
        /\ calls' = <<CallQuery(q)>>
        /\ reply' = rep
        /\ outcome' = AnswerOf(rep, CypherErrorText)
        /\ UNCHANGED <<embeddingReady, embedderReady, streamVars, agentVars>>

--------------------------------------------------------------------------
(* execute_vector_cypher *)


\* cypher.includes('{{QUERY_VECTOR}}')
HasPlaceholder(cypher) == \E i \in 1..Len(cypher) : cypher[i] = PlaceholderTok

\* /\{\{\s*QUERY_VECTOR\s*\}\}/ matches the token.
MatchesPlaceholder(tok) == tok \in {PlaceholderTok, SpacedPlaceholderTok}

\* `CAST([${queryVec.join(',')}] AS FLOAT[384])`
VectorLiteral(vec) == [kind |-> "CAST", vec |-> vec, dim |-> VectorDim]

\* Mutant: String.replace with a string pattern, which replaces the first
\* occurrence only.
InjectFirst(cypher, lit) ==
    IF ~HasPlaceholder(cypher) THEN cypher
    ELSE LET first == CHOOSE i \in 1..Len(cypher) :
                        /\ cypher[i] = PlaceholderTok
                        /\ \A j \in 1..(i - 1) : cypher[j] # PlaceholderTok
         IN [cypher EXCEPT ![first] = lit]

\* cypher.replace(/\{\{\s*QUERY_VECTOR\s*\}\}/g, queryVecStr)
Inject(cypher, lit) ==
    [i \in 1..Len(cypher) |-> IF MatchesPlaceholder(cypher[i]) THEN lit ELSE cypher[i]]

\* initEmbedder(...) resolves, or rejects with WebGPUNotAvailableError or with
\* another error.
InitOutcomes == {"ok", "webgpu-unavailable", "failed"}
InitErrorOf(o) ==
    IF o = "webgpu-unavailable" THEN ErrorObj(<<"WebGPU not available">>)
    ELSE ErrorObj(<<"model load failed">>)

\* The embedder module: a successful initEmbedder leaves it ready, a failed
\* one leaves it as it was.
EmbedderAfterInit(ready, o) == ready \/ o = "ok"

\* embedText(query) resolves to a vector, or rejects.
EmbedOutcomes == {[ok |-> TRUE, vec |-> v] : v \in Vectors} \cup {[ok |-> FALSE, vec |-> <<>>]}
EmbedError == ErrorObj(<<"embedding failed">>)

\* The run of one invocation: its outcome, its call log, the backend's reply it
\* saw and the embedder's state after it.
Run(out, log, rep, ready) == [outcome |-> out, calls |-> log, reply |-> rep, ready |-> ready]

\* Mutant: initialisation is retried on the secondary backend after any
\* failure, and once more when that fails too.
VectorTryRetryAll(query, cypher, init1, init2, emb, rep, log) ==
    LET log1 == Append(log, Call("isEmbedderReady"))
        log2 == IF embedderReady THEN log1
                ELSE IF init1 = "ok" THEN Append(log1, CallInit("default", init1))
                ELSE IF init2 = "ok"
                     THEN log1 \o <<CallInit("default", init1), CallInit("wasm", init2)>>
                     ELSE log1 \o <<CallInit("default", init1), CallInit("wasm", init2),
                                    CallInit("wasm", init2)>>
        initFailed == ~embedderReady /\ init1 # "ok" /\ init2 # "ok"
        ready2 == embedderReady \/ init1 = "ok" \/ init2 = "ok"
        log3 == Append(log2, CallEmbed(query, emb.ok))
        final == Inject(cypher, VectorLiteral(emb.vec))
    IN IF initFailed
       THEN Run(ReturnedError(VectorErrorText, ToolErrorMessage(InitErrorOf(init2))),
                log2, NoReply, ready2)
       ELSE IF ~emb.ok
            THEN Run(ReturnedError(VectorErrorText, ToolErrorMessage(EmbedError)),
                     log3, NoReply, ready2)
       ELSE Run(AnswerOf(rep, VectorErrorText), Append(log3, CallQuery(final)), rep, ready2)

\* Mutant: the embedder is initialised on every call, ready or not.
VectorTryAlwaysInit(query, cypher, init1, init2, emb, rep, log) ==
    LET fail(err, lg, rdy) ==
            Run(ReturnedError(VectorErrorText, ToolErrorMessage(err)), lg, NoReply, rdy)
        log1 == Append(log, Call("isEmbedderReady"))
        log2 == IF init1 = "webgpu-unavailable"
                THEN log1 \o <<CallInit("default", init1), CallInit("wasm", init2)>>
                ELSE Append(log1, CallInit("default", init1))
        initFailed ==
            \/ init1 = "failed"
            \/ init1 = "webgpu-unavailable" /\ init2 # "ok"
        initErr == IF init1 = "failed" THEN InitErrorOf(init1) ELSE InitErrorOf(init2)
        ready2 == IF init1 = "webgpu-unavailable"
                  THEN EmbedderAfterInit(EmbedderAfterInit(embedderReady, init1), init2)
                  ELSE EmbedderAfterInit(embedderReady, init1)
        log3 == Append(log2, CallEmbed(query, emb.ok))
        final == Inject(cypher, VectorLiteral(emb.vec))
    IN IF initFailed THEN fail(initErr, log2, ready2)
       ELSE IF ~emb.ok THEN fail(EmbedError, log3, ready2)
       ELSE Run(AnswerOf(rep, VectorErrorText), Append(log3, CallQuery(final)), rep, ready2)

\* The try block of execute_vector_cypher, entered with call log `log`.
VectorTry(query, cypher, init1, init2, emb, rep, log) ==
    LET fail(err, lg, rdy) ==
            Run(ReturnedError(VectorErrorText, ToolErrorMessage(err)), lg, NoReply, rdy)
        log1 == Append(log, Call("isEmbedderReady"))
        \* the embedder is ready when the block gets to embedText, or the block
        \* has left through catch
        log2 == IF embedderReady THEN log1
                ELSE IF init1 = "webgpu-unavailable"
                     THEN log1 \o <<CallInit("default", init1), CallInit("wasm", init2)>>
                     ELSE Append(log1, CallInit("default", init1))
        initFailed ==
            /\ ~embedderReady
            /\ \/ init1 = "failed"
               \/ init1 = "webgpu-unavailable" /\ init2 # "ok"
        initErr == IF init1 = "failed" THEN InitErrorOf(init1) ELSE InitErrorOf(init2)
        ready2 == IF embedderReady THEN TRUE
                  ELSE IF init1 = "webgpu-unavailable"
                       THEN EmbedderAfterInit(EmbedderAfterInit(FALSE, init1), init2)
                       ELSE EmbedderAfterInit(FALSE, init1)
        log3 == Append(log2, CallEmbed(query, emb.ok))
        final == Inject(cypher, VectorLiteral(emb.vec))
    IN IF initFailed THEN fail(initErr, log2, ready2)
       ELSE IF ~emb.ok THEN fail(EmbedError, log3, ready2)
       ELSE Run(AnswerOf(rep, VectorErrorText), Append(log3, CallQuery(final)), rep, ready2)

\* Mutant: the template is validated only after the embedding and the query.
VectorCypherRunCheckLate(query, cypher, probe, init1, init2, emb, rep) ==
    LET log0 == <<CallProbe(probe, embeddingReady)>>
        r == VectorTry(query, cypher, init1, init2, emb, rep, log0)
    IN IF probe = "throws" THEN Run(Threw(ProbeError), log0, NoReply, embedderReady)
       ELSE IF ~embeddingReady
            THEN Run(Returned(VectorUnavailableText), log0, NoReply, embedderReady)
       ELSE IF ~HasPlaceholder(cypher)
            THEN Run(Returned(InvalidTemplateText), r.calls, NoReply, r.ready)
       ELSE r

\* Mutant: the readiness probe is read, and its answer ignored.
VectorCypherRunNoGate(query, cypher, probe, init1, init2, emb, rep) ==
    LET log0 == <<CallProbe(probe, embeddingReady)>> IN
    IF ~HasPlaceholder(cypher)
    THEN Run(Returned(InvalidTemplateText), log0, NoReply, embedderReady)
    ELSE VectorTry(query, cypher, init1, init2, emb, rep, log0)

\* The handler of execute_vector_cypher.
VectorCypherRun(query, cypher, probe, init1, init2, emb, rep) ==
    LET log0 == <<CallProbe(probe, embeddingReady)>> IN
    IF probe = "throws" THEN Run(Threw(ProbeError), log0, NoReply, embedderReady)
    ELSE IF ~embeddingReady
         THEN Run(Returned(VectorUnavailableText), log0, NoReply, embedderReady)
    ELSE IF ~HasPlaceholder(cypher)
         THEN Run(Returned(InvalidTemplateText), log0, NoReply, embedderReady)
    ELSE VectorTry(query, cypher, init1, init2, emb, rep, log0)

ExecuteVectorCypher ==
    /\ Idle
    /\ \E query \in QueryTexts, cypher \in CypherTexts, probe \in Probes,
       init1 \in InitOutcomes, init2 \in InitOutcomes, emb \in EmbedOutcomes,
       rep \in QueryReplies :
        LET r == VectorCypherRun(query, cypher, probe, init1, init2, emb, rep) IN
        /\ tool' = "execute_vector_cypher"
        /\ args' = ToolArgs(query, cypher, Undef)
        /\ calls' = r.calls
        /\ reply' = r.reply
        /\ outcome' = r.outcome
        /\ embedderReady' = r.ready
        /\ UNCHANGED <<embeddingReady, streamVars, agentVars>>

--------------------------------------------------------------------------
(* semantic_search and semantic_search_with_context *)

\* Rows of the semantic searches: a named mapping, a positional sequence, or
\* null.  `f` holds the row's logical fields.
SemRow(shape, f) == [shape |-> shape, f |-> f]
NoFields ==
    [label |-> Undef, name |-> Undef, filePath |-> Undef, startLine |-> Undef,
     endLine |-> Undef, distance |-> Undef, matchId |-> Undef, matchName |-> Undef,
     matchLabel |-> Undef, matchPath |-> Undef, connectedName |-> Undef,
     connectedLabel |-> Undef, relationType |-> Undef]
NullRow == SemRow("null", NoFields)

\* r.<name>
ByName(r, name) == IF r.shape = "named" THEN r.f[name] ELSE Undef
\* r[<index>], with the columns of semanticSearchWithContext
ContextColumns ==
    <<"matchId", "matchName", "matchLabel", "matchPath", "distance", "depth",
      "connectedName", "connectedLabel", "relationType">>
ByIndex(r, i) ==
    IF r.shape = "positional" /\ ContextColumns[i + 1] \in DOMAIN r.f
    THEN r.f[ContextColumns[i + 1]] ELSE Undef
\* r.<name> ?? r[<index>]
Field(r, name, i) == Nullish(ByName(r, name), ByIndex(r, i))

\* (1 - distance).toFixed(2)
Relevance(d) ==
    CASE d = Num(<<"0.25">>) -> Str(<<"0.75">>)
      [] d = Num(<<"0">>) -> Str(<<"1.00">>)
      [] OTHER -> Str(<<"NaN">>)

HitFields(label, name, path, startLine, endLine, distance) ==
    [NoFields EXCEPT !.label = Str(<<label>>), !.name = Str(<<name>>),
                     !.filePath = Str(<<path>>), !.startLine = startLine,
                     !.endLine = endLine, !.distance = distance]
Hits ==
    { HitFields("Function", "login", "a.ts", Num(<<"10">>), Num(<<"20">>), Num(<<"0.25">>)),
      HitFields("Class", "Auth", "b.ts", Undef, Undef, Num(<<"0">>)) }
SearchRows == {SemRow(sh, h) : sh \in {"named", "positional"}, h \in Hits} \cup {NullRow}

\* Replies of the semantic searches: rows, or a rejection.
SearchReply(rows) == [threw |-> FALSE, rows |-> rows]
SearchThrows == [threw |-> TRUE, rows |-> <<>>]
SearchError == ErrorObj(<<"vector index missing">>)
NullRowError == ErrorObj(<<"Cannot read properties of null">>)
SearchReplies == {SearchReply(rows) : rows \in SeqsUpTo(SearchRows, MaxSemRows)}
                    \cup {SearchThrows}

Limits == {Undef, Num(<<"3">>)}

\* One entry of semantic_search's listing.
SearchLine(r, i) ==
    [idx |-> i,
     label |-> JSString(ByName(r, "label")),
     name |-> JSString(ByName(r, "name")),
     file |-> JSString(ByName(r, "filePath")),
     location |-> IF Truthy(ByName(r, "startLine"))
                  THEN <<JSString(ByName(r, "startLine")), JSString(ByName(r, "endLine"))>>
                  ELSE <<>>,
     relevance |-> Relevance(ByName(r, "distance"))]

\* The handler of semantic_search.
SemanticSearchRun(query, limit, probe, rep) ==
    LET log0 == <<CallProbe(probe, embeddingReady)>>
        log1 == Append(log0, CallSearch("semanticSearch", query,
                                        Nullish(limit, Num(<<"10">>)), Num(<<"0.5">>)))
    IN IF probe = "throws" THEN Run(Threw(ProbeError), log0, NoReply, embedderReady)
       ELSE IF ~embeddingReady
            THEN Run(Returned(SearchUnavailableText), log0, NoReply, embedderReady)
       ELSE IF rep.threw
            THEN Run(ReturnedError(SearchErrorText, ToolErrorMessage(SearchError)),
                     log1, NoReply, embedderReady)
       ELSE IF Len(rep.rows) = 0
            THEN Run(Returned(SearchNoMatchText), log1, HitsReply(rep.rows), embedderReady)
       ELSE IF \E i \in 1..Len(rep.rows) : rep.rows[i].shape = "null"
            THEN Run(ReturnedError(SearchErrorText, ToolErrorMessage(NullRowError)),
                     log1, HitsReply(rep.rows), embedderReady)
       ELSE Run([Returned(SearchFoundText) EXCEPT
                    !.n = Len(rep.rows),
                    !.lines = [i \in 1..Len(rep.rows) |-> SearchLine(rep.rows[i], i)]],
                log1, HitsReply(rep.rows), embedderReady)

\* Mutant: a search that fails marks the embeddings as not ready.
SemanticSearchMarkingUnready ==
    /\ Idle
    /\ \E query \in QueryTexts, limit \in Limits, probe \in Probes, rep \in SearchReplies :
        LET r == SemanticSearchRun(query, limit, probe, rep) IN
        /\ tool' = "semantic_search"
        /\ args' = ToolArgs(query, <<>>, limit)
        /\ calls' = r.calls
        /\ reply' = r.reply
        /\ outcome' = r.outcome
        /\ embeddingReady' = IF r.outcome.text = SearchErrorText THEN FALSE
                              ELSE embeddingReady
        /\ UNCHANGED <<embedderReady, streamVars, agentVars>>

SemanticSearch ==
    /\ Idle
    /\ \E query \in QueryTexts, limit \in Limits, probe \in Probes, rep \in SearchReplies :
        LET r == SemanticSearchRun(query, limit, probe, rep) IN
        /\ tool' = "semantic_search"
        /\ args' = ToolArgs(query, <<>>, limit)
        /\ calls' = r.calls
        /\ reply' = r.reply
        /\ outcome' = r.outcome
        /\ UNCHANGED <<embeddingReady, embedderReady, streamVars, agentVars>>

ContextFields(id, name, label, path, distance, cname, clabel, rel) ==
    [NoFields EXCEPT !.matchId = Str(<<id>>), !.matchName = Str(<<name>>),
                     !.matchLabel = Str(<<label>>), !.matchPath = Str(<<path>>),
                     !.distance = distance, !.connectedName = Str(<<cname>>),
                     !.connectedLabel = Str(<<clabel>>), !.relationType = Str(<<rel>>)]
ContextHits ==
    { ContextFields("A", "login", "Function", "a.ts", Num(<<"0.25">>), "hash", "Function", "CALLS"),
      ContextFields("A", "login", "Function", "a.ts", Num(<<"0.25">>), "db", "File", "IMPORTS"),
      ContextFields("B", "Auth", "Class", "b.ts", Num(<<"0">>), "hash", "Function", "DEFINES") }
ContextRows == {SemRow(sh, h) : sh \in {"named", "positional"}, h \in ContextHits}
                  \cup {NullRow}
\* A long reply: k rows, all of match "A" but the one at position `other`
\* (0: none), which is of match "B"; row i connects to node "c<i>", and the
\* rows alternate between the named and the positional form.
BulkContextRow(other, i) ==
    SemRow(IF i % 2 = 1 THEN "named" ELSE "positional",
           IF i = other
           THEN ContextFields("B", "Auth", "Class", "b.ts", Num(<<"0">>),
                              ToString(i), "Function", "DEFINES")
           ELSE ContextFields("A", "login", "Function", "a.ts", Num(<<"0.25">>),
                              ToString(i), "Function", "CALLS"))
BulkContextRows(k, other) == [i \in 1..k |-> BulkContextRow(other, i)]
BulkCounts == (ConnectionCap - 1)..(ConnectionCap + MaxExtraRows)
BulkContextReplies ==
    {SearchReply(BulkContextRows(k, other)) : k \in BulkCounts, other \in {0, 1, 2}}
ContextReplies == {SearchReply(rows) : rows \in SeqsUpTo(ContextRows, MaxSemRows)}
                     \cup BulkContextReplies \cup {SearchThrows}

\* The connection a row contributes to its match's group.
ConnectionOf(r) ==
    [name |-> Field(r, "connectedName", 6),
     label |-> Field(r, "connectedLabel", 7),
     relType |-> Field(r, "relationType", 8)]

\* Mutant: no grouping, every row is an entry of its own.
GroupRowsUngrouped(rows, n) ==
    [i \in 1..n |->
        [matchId |-> Field(rows[i], "matchId", 0),
         matchName |-> Field(rows[i], "matchName", 1),
         matchLabel |-> Field(rows[i], "matchLabel", 2),
         matchPath |-> Field(rows[i], "matchPath", 3),
         distance |-> Field(rows[i], "distance", 4),
         connections |-> <<ConnectionOf(rows[i])>>]]

\* Mutant: a row whose match already has a group is dropped.
RECURSIVE GroupRowsKeepFirst(_, _)
GroupRowsKeepFirst(rows, n) ==
    IF n = 0 THEN <<>>
    ELSE LET g == GroupRowsKeepFirst(rows, n - 1)
             r == rows[n]
             id == Field(r, "matchId", 0)
         IN IF \E j \in 1..Len(g) : g[j].matchId = id
            THEN g
            ELSE Append(g, [matchId |-> id,
                            matchName |-> Field(r, "matchName", 1),
                            matchLabel |-> Field(r, "matchLabel", 2),
                            matchPath |-> Field(r, "matchPath", 3),
                            distance |-> Field(r, "distance", 4),
                            connections |-> <<ConnectionOf(r)>>])

\* The Map `grouped` after the first n rows, as its entries in insertion order.
RECURSIVE GroupRows(_, _)
GroupRows(rows, n) ==
    IF n = 0 THEN <<>>
    ELSE LET g == GroupRows(rows, n - 1)
             r == rows[n]
             id == Field(r, "matchId", 0)
         IN IF \E j \in 1..Len(g) : g[j].matchId = id
            THEN LET j == CHOOSE j \in 1..Len(g) : g[j].matchId = id
                 IN [g EXCEPT ![j].connections = Append(@, ConnectionOf(r))]
            ELSE Append(g, [matchId |-> id,
                            matchName |-> Field(r, "matchName", 1),
                            matchLabel |-> Field(r, "matchLabel", 2),
                            matchPath |-> Field(r, "matchPath", 3),
                            distance |-> Field(r, "distance", 4),
                            connections |-> <<ConnectionOf(r)>>])

\* One entry of semantic_search_with_context's listing.
ContextLine(g, i) ==
    [idx |-> i,
     label |-> JSString(g.matchLabel),
     name |-> JSString(g.matchName),
     file |-> JSString(g.matchPath),
     relevance |-> Relevance(g.distance),
     connections |-> Slice(g.connections, ConnectionCap),
     more |-> IF Len(g.connections) > ConnectionCap
              THEN <<Len(g.connections) - ConnectionCap>> ELSE <<>>]

\* The handler of semantic_search_with_context.
ContextSearchRun(query, limit, probe, rep) ==
    LET log0 == <<CallProbe(probe, embeddingReady)>>
        log1 == Append(log0, CallSearch("semanticSearchWithContext", query,
                                        Nullish(limit, Num(<<"5">>)), Undef))
        grouped == GroupRows(rep.rows, Len(rep.rows))
    IN IF probe = "throws" THEN Run(Threw(ProbeError), log0, NoReply, embedderReady)
       ELSE IF ~embeddingReady
            THEN Run(Returned(SearchUnavailableText), log0, NoReply, embedderReady)
       ELSE IF rep.threw
            THEN Run(ReturnedError(ContextErrorText, ToolErrorMessage(SearchError)),
                     log1, NoReply, embedderReady)
       ELSE IF Len(rep.rows) = 0
            THEN Run(Returned(ContextNoMatchText), log1, HitsReply(rep.rows), embedderReady)
       ELSE IF \E i \in 1..Len(rep.rows) : rep.rows[i].shape = "null"
            THEN Run(ReturnedError(ContextErrorText, ToolErrorMessage(NullRowError)),
                     log1, HitsReply(rep.rows), embedderReady)
       ELSE Run([Returned(ContextFoundText) EXCEPT
                    !.n = Len(rep.rows),
                    !.groups = Len(grouped),
                    !.lines = [i \in 1..Len(grouped) |-> ContextLine(grouped[i], i)]],
                log1, HitsReply(rep.rows), embedderReady)

\* The hop counts a caller may put into the call.  The tool's schema declares
\* query and limit only; the handler destructures those two, so a hops key of
\* the call never reaches it.
Hops == {Undef, Num(<<"1">>), Num(<<"5">>)}

SemanticSearchWithContext ==
    /\ Idle
    /\ \E query \in QueryTexts, limit \in Limits, hops \in Hops, probe \in Probes,
          rep \in ContextReplies :
        LET r == ContextSearchRun(query, limit, probe, rep) IN
        /\ tool' = "semantic_search_with_context"
        /\ args' = [ToolArgs(query, <<>>, limit) EXCEPT !.hops = hops]
        /\ calls' = r.calls
        /\ reply' = r.reply
        /\ outcome' = r.outcome
        /\ UNCHANGED <<embeddingReady, embedderReady, streamVars, agentVars>>

--------------------------------------------------------------------------
(* get_graph_schema *)

\* The text of types.ts' GRAPH_SCHEMA_DESCRIPTION.
GRAPH_SCHEMA_DESCRIPTION == "KUZU GRAPH DATABASE SCHEMA: ..."
SchemaWithoutExamplesText == "KUZU GRAPH DATABASE SCHEMA (no examples): ..."

\* Mutant: the examples are left out of the text on request.
GetSchemaRunHonouringFlag(includeExamples) ==
    Run(Returned(IF includeExamples = Bool(FALSE) THEN SchemaWithoutExamplesText
                 ELSE GRAPH_SCHEMA_DESCRIPTION),
        <<>>, NoReply, embedderReady)

\* async ({ includeExamples }) => { return GRAPH_SCHEMA_DESCRIPTION; }
GetSchemaRun(includeExamples) ==
    Run(Returned(GRAPH_SCHEMA_DESCRIPTION), <<>>, NoReply, embedderReady)

GetSchema ==
    /\ Idle
    /\ \E includeExamples \in {Undef, Bool(TRUE), Bool(FALSE)} :
        LET r == GetSchemaRun(includeExamples) IN
        /\ tool' = "get_graph_schema"
        /\ args' = [ToolArgs(<<>>, <<>>, Undef) EXCEPT !.includeExamples = includeExamples]
        /\ calls' = r.calls
        /\ reply' = r.reply
        /\ outcome' = r.outcome
        /\ UNCHANGED <<embeddingReady, embedderReady, streamVars, agentVars>>

\* The embedding pipeline, outside the tools, finishes (or its index is
\* dropped): what isEmbeddingReady() reports changes.
--------------------------------------------------------------------------
(* get_code_content *)

NotFoundText == "No node found with ID: ${nodeId}"
NoSourceText == "${label} \"${name}\" in ${filePath} (no source code available)"
\* <fence> stands for the three backquotes that open and close a code block.
CodeBlockText ==
    "${label}: ${name}\nFile: ${filePath}\nLines: ${startLine}-${endLine}\n\n<fence>\n${content}\n<fence>"
CodeErrorText == "Error retrieving code: ${message}"

\* Node identifiers, as sequences of characters; some hold single quotes.
NodeIds == {<<"f", "1">>, <<"o", "'", "k">>, <<"'", "'">>}

\* nodeId.replace(/'/g, "''")
RECURSIVE EscapeQuotes(_)
EscapeQuotes(s) ==
    IF s = <<>> THEN <<>>
    ELSE (IF Head(s) = "'" THEN <<"'", "'">> ELSE <<Head(s)>>) \o EscapeQuotes(Tail(s))

\* executeQuery of the lookup: MATCH (n:CodeNode {id: '<escaped id>'}) RETURN ...
CallLookup(nodeId) == [Call("executeQuery") EXCEPT !.text = EscapeQuotes(nodeId)]

\* RETURN n.name AS name, n.label AS label, n.filePath AS filePath,
\*        n.content AS content, n.startLine AS startLine, n.endLine AS endLine
CodeColumns == <<"name", "label", "filePath", "content", "startLine", "endLine">>

\* The rows executeQuery gives for the lookup: objects keyed by column name, or
\* arrays in column order; the stored content is text, empty, or missing.
StoredContents == {Str(<<"fn(){}">>), EmptyStr, Null, Undef}
CodeRow(shape, content) ==
    [shape |-> shape,
     f |-> [name |-> Str(<<"main">>), label |-> Str(<<"Function">>),
            filePath |-> Str(<<"a.ts">>), content |-> content,
            startLine |-> Num(<<"1">>), endLine |-> Num(<<"9">>)]]
CodeRows == {CodeRow(shape, c) : shape \in {"named", "positional"}, c \in StoredContents}
NodeReply(rows) == [NoReply EXCEPT !.kind = "node", !.hits = rows]
CodeReplies ==
    {NodeReply(rows) : rows \in SeqsUpTo(CodeRows, MaxCodeRows)}
        \cup {ThrowReply(err) : err \in Throwables}

\* node.<name> ?? node[<index>]
CodeField(node, name, i) ==
    Nullish(IF node.shape = "named" THEN node.f[name] ELSE Undef,
            IF node.shape = "positional" THEN node.f[CodeColumns[i + 1]] ELSE Undef)

\* The values the returned text interpolates.  The summary has no line range
\* and no code block.
CodeSummary(label, name, filePath) ==
    [label |-> JSString(label), name |-> JSString(name), filePath |-> JSString(filePath),
     startLine |-> EmptyStr, endLine |-> EmptyStr, content |-> EmptyStr]
CodeListing(label, name, filePath, startLine, endLine, content) ==
    [label |-> JSString(label), name |-> JSString(name), filePath |-> JSString(filePath),
     startLine |-> JSString(startLine), endLine |-> JSString(endLine),
     content |-> JSString(content)]

\* Mutant: only a missing content counts as "no source code"; an empty one is
\* printed as an empty code block.
GetCodeContentRunEmptyBlock(nodeId, rep) ==
    LET log == <<CallLookup(nodeId)>> IN
    IF rep.kind = "throws"
    THEN Run(ReturnedError(CodeErrorText, ToolErrorMessage(rep.err)), log, rep, embedderReady)
    ELSE IF Len(rep.hits) = 0
    THEN Run(ReturnedError(NotFoundText, Str(nodeId)), log, rep, embedderReady)
    ELSE
        LET node == rep.hits[1]
            name == CodeField(node, "name", 0)
            label == CodeField(node, "label", 1)
            filePath == CodeField(node, "filePath", 2)
            content == CodeField(node, "content", 3)
            startLine == CodeField(node, "startLine", 4)
            endLine == CodeField(node, "endLine", 5)
        IN IF content.t \in {"undefined", "null"}
           THEN Run([Returned(NoSourceText) EXCEPT
                        !.lines = <<CodeSummary(label, name, filePath)>>],
                    log, rep, embedderReady)
           ELSE Run([Returned(CodeBlockText) EXCEPT
                        !.lines = <<CodeListing(label, name, filePath, startLine,
                                                endLine, content)>>],
                    log, rep, embedderReady)

\* The execution function of get_code_content.
GetCodeContentRun(nodeId, rep) ==
    LET log == <<CallLookup(nodeId)>> IN
    IF rep.kind = "throws"
    THEN Run(ReturnedError(CodeErrorText, ToolErrorMessage(rep.err)), log, rep, embedderReady)
    ELSE IF Len(rep.hits) = 0
    THEN Run(ReturnedError(NotFoundText, Str(nodeId)), log, rep, embedderReady)
    ELSE
        LET node == rep.hits[1]
            name == CodeField(node, "name", 0)
            label == CodeField(node, "label", 1)
            filePath == CodeField(node, "filePath", 2)
            content == CodeField(node, "content", 3)
            startLine == CodeField(node, "startLine", 4)
            endLine == CodeField(node, "endLine", 5)
        IN IF ~Truthy(content)
           THEN Run([Returned(NoSourceText) EXCEPT
                        !.lines = <<CodeSummary(label, name, filePath)>>],
                    log, rep, embedderReady)
           ELSE Run([Returned(CodeBlockText) EXCEPT
                        !.lines = <<CodeListing(label, name, filePath, startLine,
                                                endLine, content)>>],
                    log, rep, embedderReady)

GetCodeContent ==
    /\ Idle
    /\ \E nodeId \in NodeIds, rep \in CodeReplies :
        LET r == GetCodeContentRun(nodeId, rep) IN
        /\ tool' = "get_code_content"
        /\ args' = [ToolArgs(<<>>, <<>>, Undef) EXCEPT !.nodeId = nodeId]
        /\ calls' = r.calls
        /\ reply' = r.reply
        /\ outcome' = r.outcome
        /\ UNCHANGED <<embeddingReady, embedderReady, streamVars, agentVars>>

EmbeddingReadinessChanges ==
    /\ Idle
    /\ embeddingReady' = ~embeddingReady
    /\ UNCHANGED <<embedderReady, tool, args, calls, reply, outcome, streamVars, agentVars>>

\* The invocation is over: the agent loop has taken its observation (or its
\* exception), and the handler's locals are gone.
ToolCallSettles ==
    /\ ~Idle
    /\ tool' = "none"
    /\ args' = ToolArgs(<<>>, <<>>, Undef)
    /\ calls' = <<>>
    /\ reply' = NoReply
    /\ outcome' = NoOutcome
    /\ UNCHANGED <<embeddingReady, embedderReady, streamVars, agentVars>>

ToolNext ==
    \/ ToolCallSettles
    \/ ExecuteCypher
    \/ ExecuteVectorCypher
    \/ SemanticSearch
    \/ SemanticSearchWithContext
    \/ GetSchema
    \/ GetCodeContent
    \/ EmbeddingReadinessChanges

--------------------------------------------------------------------------
(* createChatModel, createGraphRAGAgent and invokeAgent *)

\* A ProviderConfig, as it reaches createChatModel at run time (the tag is
\* whatever the stored settings hold).
Config(provider, temperature, apiVersion, endpoint) ==
    [provider |-> provider, temperature |-> temperature, apiVersion |-> apiVersion,
     endpoint |-> endpoint]
ProviderTags == {"azure-openai", "gemini", "ollama", "anthropic"}
\* Endpoints: an Azure OpenAI URL, another URL, and a text that is no URL.
Endpoints == {"https://my-resource.openai.azure.com", "https://llm.example.org", "my-resource"}
ProviderConfigs ==
    {Config(p, t, v, e) : p \in ProviderTags, t \in {Undef, Num(<<"0">>)},
                          v \in {Undef, Str(<<"2024-10-21">>)}, e \in Endpoints}

\* extractInstanceName(endpoint)
ExtractInstanceName(endpoint) ==
    CASE endpoint = "https://my-resource.openai.azure.com" -> "my-resource"
      [] endpoint = "https://llm.example.org" -> "llm"
      [] OTHER -> endpoint

NoClient == [class |-> "", temperature |-> Undef, apiVersion |-> Undef, instance |-> ""]
UnsupportedProvider(tag) == ErrorObj(<<"Unsupported provider: ", tag>>)

\* Mutant: an unknown tag falls back to the Gemini client.
CreateChatModelDefaulting(config) ==
    [threw |-> FALSE, err |-> NothingThrown,
     client |-> IF config.provider = "azure-openai"
                THEN [class |-> "AzureChatOpenAI",
                      temperature |-> Nullish(config.temperature, Num(<<"0.1">>)),
                      apiVersion |-> Nullish(config.apiVersion, Str(<<"2024-08-01-preview">>)),
                      instance |-> ExtractInstanceName(config.endpoint)]
                ELSE [NoClient EXCEPT
                        !.class = "ChatGoogleGenerativeAI",
                        !.temperature = Nullish(config.temperature, Num(<<"0.1">>))]]

\* createChatModel(config): the switch over config.provider.
CreateChatModel(config) ==
    CASE config.provider = "azure-openai" ->
            [threw |-> FALSE, err |-> NothingThrown,
             client |-> [class |-> "AzureChatOpenAI",
                         temperature |-> Nullish(config.temperature, Num(<<"0.1">>)),
                         apiVersion |-> Nullish(config.apiVersion,
                                                Str(<<"2024-08-01-preview">>)),
                         instance |-> ExtractInstanceName(config.endpoint)]]
      [] config.provider = "gemini" ->
            [threw |-> FALSE, err |-> NothingThrown,
             client |-> [NoClient EXCEPT
                           !.class = "ChatGoogleGenerativeAI",
                           !.temperature = Nullish(config.temperature, Num(<<"0.1">>))]]
      [] OTHER ->
            [threw |-> TRUE, err |-> UnsupportedProvider(config.provider),
             client |-> NoClient]

\* The tools createGraphRAGTools returns, in order.
GraphRAGTools ==
    <<"execute_cypher", "execute_vector_cypher", "semantic_search",
      "semantic_search_with_context", "get_graph_schema", "get_code_content",
      "get_codebase_stats">>

NoAgent ==
    [status |-> "none", config |-> Config("", Undef, Undef, ""), client |-> NoClient,
     tools |-> <<>>, error |-> Undef]
NoAnswer == [status |-> "none", invokes |-> 0, messages |-> <<>>, text |-> Undef]

AgentInit ==
    /\ agent = NoAgent
    /\ answer = NoAnswer

\* createGraphRAGAgent(config, ...): the model first, then the tools, then the
\* agent; an exception of createChatModel leaves the function at once.
CreateGraphRAGAgent ==
    /\ agent.status = "none"
    /\ \E config \in ProviderConfigs :
        LET model == CreateChatModel(config) IN
        agent' = IF model.threw
                 THEN [NoAgent EXCEPT !.status = "threw", !.config = config,
                                      !.error = model.err.message]
                 ELSE [NoAgent EXCEPT !.status = "created", !.config = config,
                                      !.client = model.client, !.tools = GraphRAGTools]
    /\ UNCHANGED <<answer, streamVars, toolVars>>

\* The contents a message of the resulting conversation may carry: a text, the
\* empty text, content parts, null, or none.
MessageContents == {Str(<<"It calls hash().">>), EmptyStr, Obj(<<"parts">>), Null, Undef}
Conversations == SeqsUpTo(MessageContents, MaxMessages)
NoResponseText == Str(<<"No response generated.">>)
InvokeError == ErrorObj(<<"rate limited">>)

\* Mutant: the sentinel is chosen with ||, so also for an empty content.
LastContentTextFalsy(messages) ==
    IF messages = <<>> THEN NoResponseText
    ELSE LET content == messages[Len(messages)] IN
         IF content.t \in {"undefined", "null"} THEN NoResponseText
         ELSE IF Truthy(JSString(content)) THEN JSString(content) ELSE NoResponseText

\* lastMessage?.content?.toString() ?? 'No response generated.'
LastContentText(messages) ==
    IF messages = <<>> THEN NoResponseText
    ELSE LET content == messages[Len(messages)] IN
         IF content.t \in {"undefined", "null"} THEN NoResponseText
         ELSE Nullish(JSString(content), NoResponseText)

\* invokeAgent(agent, messages): agent.invoke is awaited once; its conversation
\* gives the answer, its rejection is the caller's.
InvokeAgent ==
    /\ agent.status = "created"
    /\ \/ \E messages \in Conversations :
             answer' = [status |-> "returned", invokes |-> 1, messages |-> messages,
                        text |-> LastContentText(messages)]
       \/ answer' = [NoAnswer EXCEPT !.status = "threw", !.invokes = 1,
                                     !.text = InvokeError.message]
    /\ UNCHANGED <<agent, streamVars, toolVars>>

AgentNext ==
    \/ CreateGraphRAGAgent
    \/ InvokeAgent

--------------------------------------------------------------------------
(* Specifications *)

Init == StreamInit /\ ToolInit /\ AgentInit

\* The event translator, driven by its consumer and its upstream.
StreamOnlyInit == Init /\ embeddingReady /\ embedderReady
SpecStream == StreamOnlyInit /\ [][StreamNext]_vars

\* The tools, invoked one after the other by the agent loop.
SpecTools == Init /\ [][ToolNext]_vars

\* The agent's construction and its blocking call.
SpecAgent == Init /\ [][AgentNext]_vars

Next == StreamNext \/ ToolNext \/ AgentNext
Spec == Init /\ [][Next]_vars

--------------------------------------------------------------------------
(* Properties of the tools *)

VectorTool == tool = "execute_vector_cypher"
SemanticTools == {"semantic_search", "semantic_search_with_context", "execute_vector_cypher"}
CallsTo(fns) == {i \in 1..Len(calls) : calls[i].fn \in fns}
\* The template of the invocation holds the placeholder token, as documented.
TemplateHasToken == \E i \in 1..Len(args.cypher) : args.cypher[i].kind = "{{QUERY_VECTOR}}"
ProbeSaid(b) == calls # <<>> /\ calls[1].fn = "isEmbeddingReady" /\ calls[1].result = b

\* C5 as stated: every call of execute_vector_cypher whose template lacks the
\* placeholder returns the invalid-input message and calls none of embedText,
\* initEmbedder and executeQuery.
C5_AsStated ==
    (VectorTool /\ ~TemplateHasToken) =>
        /\ outcome = Returned(InvalidTemplateText)
        /\ CallsTo({"embedText", "initEmbedder", "executeQuery"}) = {}

\* C5, amended: a call of execute_vector_cypher whose template lacks the
\* placeholder calls none of embedText, initEmbedder, isEmbedderReady and
\* executeQuery, and it returns the invalid-input message whenever
\* isEmbeddingReady() reported true; when it reported false the call returns
\* the unavailable message, the readiness probe being read first.
C5_NoEmbeddingWithoutPlaceholder ==
    (VectorTool /\ ~TemplateHasToken) =>
        /\ CallsTo({"embedText", "initEmbedder", "isEmbedderReady", "executeQuery"}) = {}
        /\ ProbeSaid("true") => outcome = Returned(InvalidTemplateText)
        /\ ProbeSaid("false") => outcome = Returned(VectorUnavailableText)

\* C5 witness: a template whose only placeholder has blanks inside its braces
\* was rejected with the embeddings ready.
C5_Witness ==
    /\ VectorTool
    /\ args.cypher = <<TextTok, SpacedPlaceholderTok>>
    /\ ProbeSaid("true")
    /\ outcome.text = InvalidTemplateText
    /\ Len(calls) = 1

\* The query given to executeQuery is the template with every placeholder
\* replaced by one and the same CAST literal, of the vector embedText gave.
Substituted(template, q) ==
    /\ Len(q) = Len(template)
    /\ \E vec \in Vectors :
          LET lit == [kind |-> "CAST", vec |-> vec, dim |-> 384] IN
          \A j \in 1..Len(q) :
             /\ q[j].kind # "{{QUERY_VECTOR}}"
             /\ template[j].kind = "{{QUERY_VECTOR}}" => q[j] = lit
             /\ template[j].kind = "text" => q[j] = template[j]

InjectionIsGlobal ==
    \A i \in CallsTo({"executeQuery"}) : Substituted(args.cypher, calls[i].cypher)

UnavailableTextOf(t) ==
    IF t = "execute_vector_cypher" THEN VectorUnavailableText ELSE SearchUnavailableText

\* C7: each semantic tool reads isEmbeddingReady() before anything else, and
\* when that reports false the tool returns its unavailable message and has
\* called nothing else: not semanticSearch, semanticSearchWithContext,
\* initEmbedder, embedText or executeQuery.
C7_UnavailableWithoutWork ==
    tool \in SemanticTools =>
        /\ calls # <<>>
        /\ calls[1].fn = "isEmbeddingReady"
        /\ CallsTo({"isEmbeddingReady"}) = {1}
        /\ ~embeddingReady =>
              /\ Len(calls) = 1
              /\ calls[1].result \in {"false", "throws"}
              /\ calls[1].result = "false" =>
                    outcome = Returned(UnavailableTextOf(tool))

\* C7 witness: execute_vector_cypher, given a well-formed template, returned
\* its unavailable message on a false probe.
C7_Witness ==
    /\ VectorTool
    /\ TemplateHasToken
    /\ ProbeSaid("false")
    /\ outcome = Returned(VectorUnavailableText)

\* C8 as stated: no invocation of a tool ends with an exception.
C8_ToolsNeverThrow == outcome.status # "threw"

FormatterTools == {"execute_cypher", "execute_vector_cypher"}
MinOf(a, b) == IF a < b THEN a ELSE b

\* C9 as stated: a result set of n > 0 rows is rendered as min(n, 50) rows,
\* numbered from 1 in input order, with the truncation note counting n - 50
\* exactly when n > 50.
C9_AsStated ==
    (tool \in FormatterTools /\ reply.kind = "rows" /\ reply.rs.n > 0) =>
        LET n == reply.rs.n
            rows == Rows(reply.rs)
        IN /\ outcome.status = "returned"
           /\ outcome.text = ResultsHeaderText
           /\ outcome.n = n
           /\ Len(outcome.lines) = MinOf(n, 50)
           /\ \A i \in 1..Len(outcome.lines) :
                 /\ outcome.lines[i].idx = i
                 /\ outcome.lines[i].cells = rows[i].cells
           /\ outcome.note = IF n > 50 THEN <<n - 50>> ELSE <<>>

\* C10: whenever executeQuery returned no rows, execute_cypher and
\* execute_vector_cypher return exactly the "no results" sentinel: a fixed,
\* non-empty text, with no header and no rows.
C10_EmptySentinel ==
    (tool \in FormatterTools /\ reply.kind = "rows" /\ reply.rs.n = 0) =>
        /\ outcome = Returned("Query returned no results.")
        /\ outcome.text # ""
        /\ outcome.lines = <<>>

\* C10 witness: execute_vector_cypher ran its query and got no rows.
C10_Witness ==
    /\ VectorTool
    /\ reply.kind = "rows"
    /\ reply.rs.n = 0
    /\ CallsTo({"executeQuery"}) # {}
    /\ outcome.text = NoResultsText

--------------------------------------------------------------------------
(* Properties of the tools, continued *)

ContextTool == tool = "semantic_search_with_context"
MatchIdOf(r) == Field(r, "matchId", 0)
\* The positions at which a match id occurs for the first time.
FirstSeenAt(rows) ==
    {i \in 1..Len(rows) : \A j \in 1..(i - 1) : MatchIdOf(rows[j]) # MatchIdOf(rows[i])}
PositionsOf(rows, id) == {i \in 1..Len(rows) : MatchIdOf(rows[i]) = id}
\* The k-th smallest member of a set of numbers.
Nth(S, k) == CHOOSE x \in S : Cardinality({y \in S : y <= x}) = k

\* C11: semantic_search_with_context groups the rows it got by match id: one
\* group per distinct id, the groups in the order their ids were first seen,
\* each group holding the connections of its rows in arrival order, of which
\* the first 15 are displayed, followed by "and N more" with N = connections
\* - 15 when there are more than 15.  The rows are mappings or sequences; a
\* reply holding null in place of a row is answered with the tool's error text.
C11_GroupedInFirstSeenOrder ==
    (/\ ContextTool
     /\ reply.kind = "hits"
     /\ reply.hits # <<>>
     /\ \A i \in 1..Len(reply.hits) : reply.hits[i].shape # "null") =>
        LET rows == reply.hits
            firsts == FirstSeenAt(rows)
        IN /\ outcome.text = ContextFoundText
           /\ outcome.n = Len(rows)
           /\ outcome.groups = Cardinality({MatchIdOf(rows[i]) : i \in 1..Len(rows)})
           /\ Len(outcome.lines) = outcome.groups
           /\ \A g \in 1..Len(outcome.lines) :
                 LET first == Nth(firsts, g)
                     pos == PositionsOf(rows, MatchIdOf(rows[first]))
                     total == Cardinality(pos)
                     shown == IF total < 15 THEN total ELSE 15
                     line == outcome.lines[g]
                 IN /\ line.idx = g
                    /\ line.name = JSString(Field(rows[first], "matchName", 1))
                    /\ Len(line.connections) = shown
                    /\ \A c \in 1..shown :
                          LET r == rows[Nth(pos, c)] IN
                          /\ line.connections[c].name = Field(r, "connectedName", 6)
                          /\ line.connections[c].label = Field(r, "connectedLabel", 7)
                          /\ line.connections[c].relType = Field(r, "relationType", 8)
                    /\ line.more = IF total > 15 THEN <<total - 15>> ELSE <<>>

\* C11 witness: seventeen rows, the second of match "B" and the others of match
\* "A": two groups, "A" first with fifteen connections shown and one more, "B"
\* second with its one connection.
C11_Witness ==
    /\ ContextTool
    /\ outcome.groups = 2
    /\ outcome.n = 17
    /\ outcome.lines[1].name = Str(<<"login">>)
    /\ Len(outcome.lines[1].connections) = 15
    /\ outcome.lines[1].connections[2].name = Str(<<"3">>)
    /\ outcome.lines[1].more = <<1>>
    /\ outcome.lines[2].name = Str(<<"Auth">>)
    /\ Len(outcome.lines[2].connections) = 1

\* C12: within one call of execute_vector_cypher the embedder is initialised
\* at most twice: once on the default backend and, only when that attempt
\* failed with WebGPUNotAvailableError, once more on the secondary ('wasm')
\* backend, right after it.  Any other failure of the first attempt, and any
\* failure of the fallback, ends the call with its error text: nothing is
\* initialised, embedded or queried after it.
C12_FallbackAtMostOnce ==
    VectorTool =>
        LET inits == CallsTo({"initEmbedder"})
            fallbacks == {i \in inits : calls[i].device = "wasm"}
            primaries == {i \in inits : calls[i].device = "default"}
        IN /\ Cardinality(inits) <= 2
           /\ Cardinality(primaries) <= 1
           /\ Cardinality(fallbacks) <= 1
           /\ \A i \in fallbacks :
                 /\ i - 1 \in primaries
                 /\ calls[i - 1].result = "webgpu-unavailable"
           /\ \A i \in primaries :
                 /\ calls[i].result = "webgpu-unavailable" => i + 1 \in fallbacks
                 /\ calls[i].result = "failed" => i = Len(calls)
           /\ \A i \in fallbacks : calls[i].result # "ok" => i = Len(calls)
           /\ \A i \in inits :
                 (i = Len(calls) /\ calls[i].result # "ok") =>
                    outcome.text = VectorErrorText

\* C12 witness: the default backend was unavailable and the fallback failed
\* too; the call ended there, with two initialisations.
C12_Witness ==
    /\ VectorTool
    /\ Len(calls) = 4
    /\ calls[3] = CallInit("default", "webgpu-unavailable")
    /\ calls[4] = CallInit("wasm", "webgpu-unavailable")
    /\ outcome.text = VectorErrorText

--------------------------------------------------------------------------
(* Properties of the agent's construction and of invokeAgent *)

\* C14: invokeAgent awaits agent.invoke once and returns the content of the
\* last message of the conversation it resolved to (a text as it is, the empty
\* text included; content parts through their toString()), and the text "No
\* response generated." when the conversation is empty or its last message
\* has no content (undefined or null).
C14_LastMessageOrSentinel ==
    answer.status = "returned" =>
        /\ answer.invokes = 1
        /\ LET msgs == answer.messages IN
           IF msgs = <<>> \/ msgs[Len(msgs)] \in {Undef, Null}
           THEN answer.text = Str(<<"No response generated.">>)
           ELSE IF msgs[Len(msgs)].t = "string"
                THEN answer.text = msgs[Len(msgs)]
                ELSE answer.text = Str(<<"[object Object]">>)

\* C14 witness: the conversation ended with a message of empty content after
\* one with a text; the empty text was returned.
C14_Witness ==
    /\ answer.status = "returned"
    /\ answer.messages = <<Str(<<"It calls hash().">>), EmptyStr>>
    /\ answer.text = EmptyStr

\* C15: createChatModel gives the Azure OpenAI client for 'azure-openai' and
\* the Gemini client for 'gemini', and throws "Unsupported provider: <tag>"
\* for every other tag, 'ollama' included; createGraphRAGAgent then ends with
\* that error, having built no tool and no agent, so that no request is made.
C15_UnsupportedProviderFails ==
    agent.status # "none" =>
        CASE agent.config.provider = "azure-openai" ->
                /\ agent.status = "created"
                /\ agent.client.class = "AzureChatOpenAI"
                /\ Len(agent.tools) = 7
          [] agent.config.provider = "gemini" ->
                /\ agent.status = "created"
                /\ agent.client.class = "ChatGoogleGenerativeAI"
                /\ Len(agent.tools) = 7
          [] OTHER ->
                /\ agent.status = "threw"
                /\ agent.error = Str(<<"Unsupported provider: ", agent.config.provider>>)
                /\ agent.client = NoClient
                /\ agent.tools = <<>>
                /\ answer = NoAnswer

\* C15 witness: a configuration tagged 'ollama' was refused.
C15_Witness ==
    /\ agent.status = "threw"
    /\ agent.config.provider = "ollama"
    /\ agent.error = Str(<<"Unsupported provider: ", "ollama">>)

\* C20 as stated: execute_cypher answers every result set with its listing
\* (or the "no results" text), never with its error text.
C20_AsStated ==
    (tool = "execute_cypher" /\ reply.kind = "rows") =>
        /\ outcome.status = "returned"
        /\ outcome.text \in {NoResultsText, ResultsHeaderText}
        /\ outcome.message = Undef
        /\ Len(outcome.lines) = MinOf(reply.rs.n, 50)

\* C21 as stated: the hop count semantic_search_with_context passes to
\* semanticSearchWithContext is the caller's when given and 2 when omitted,
\* and it is never greater than 3.
C21_AsStated ==
    ContextTool =>
        \A i \in CallsTo({"semanticSearchWithContext"}) :
            /\ calls[i].third = IF args.hops = Undef THEN Num(<<"2">>) ELSE args.hops
            /\ calls[i].third \in {Num(<<"1">>), Num(<<"2">>), Num(<<"3">>)}

\* The rows as the backend would deliver them in named form.
AsNamed(rows) == [i \in 1..Len(rows) |-> SemRow("named", rows[i].f)]

\* C22 as stated, for the semantic searches: whatever the form of the rows
\* (named mappings or positional sequences), the listing is the one the
\* named rows give.
C22_AsStated ==
    (/\ tool \in {"semantic_search", "semantic_search_with_context"}
     /\ reply.kind = "hits"
     /\ reply.hits # <<>>
     /\ \A i \in 1..Len(reply.hits) : reply.hits[i].shape # "null") =>
        LET named == AsNamed(reply.hits)
            groups == GroupRows(named, Len(named))
        IN outcome.lines =
              IF tool = "semantic_search"
              THEN [i \in 1..Len(named) |-> SearchLine(named[i], i)]
              ELSE [g \in 1..Len(groups) |-> ContextLine(groups[g], g)]

\* A tool is invoked in this step.
ToolInvoked == tool = "none" /\ tool' # "none"
\* The invocation ended in an exception, or in an error, unavailable or
\* invalid-input message.
FailureOutcome(o) ==
    \/ o.status = "threw"
    \/ o.text \in {CypherErrorText, VectorErrorText, SearchErrorText, ContextErrorText,
                   CodeErrorText, VectorUnavailableText, SearchUnavailableText, InvalidTemplateText}
InitialisedIn(log) ==
    \E i \in 1..Len(log) : log[i].fn = "initEmbedder" /\ log[i].result = "ok"

\* C23 as stated: a tool invocation that ends in failure leaves both the
\* embedding-ready flag and the embedder's initialised state as they were.
C23_AsStated ==
    [][(ToolInvoked /\ FailureOutcome(outcome')) =>
          (embeddingReady' = embeddingReady /\ embedderReady' = embedderReady)]_vars

\* C23, amended: no tool invocation, failed or not, changes the
\* embedding-ready flag.  The embedder's initialised state changes only in an
\* invocation of execute_vector_cypher that found the embedder not ready and
\* whose initEmbedder call succeeded, from not ready to ready; that change
\* stays when the invocation fails afterwards (embedText or the query fails).
\* A failed invocation without a successful initialisation changes nothing.
C23_ReadinessFrame ==
    [][ToolInvoked =>
          /\ embeddingReady' = embeddingReady
          /\ embedderReady' # embedderReady =>
                /\ tool' = "execute_vector_cypher"
                /\ ~embedderReady
                /\ embedderReady'
                /\ InitialisedIn(calls')
          /\ (tool' = "execute_vector_cypher" /\ InitialisedIn(calls')) => embedderReady'
          /\ (FailureOutcome(outcome') /\ ~InitialisedIn(calls')) =>
                embedderReady' = embedderReady]_vars

\* C23 witness: execute_vector_cypher initialised the embedder, then embedText
\* failed; the call returned its error text and the embedder is ready.
C23_Witness ==
    /\ VectorTool
    /\ outcome.text = VectorErrorText
    /\ InitialisedIn(calls)
    /\ calls[Len(calls)].fn = "embedText"
    /\ calls[Len(calls)].result = "rejects"
    /\ embedderReady

\* C24: a backend failure is never retried: every invocation of execute_cypher
\* calls executeQuery exactly once, with the query it was given, and calls
\* nothing else; when that call fails the tool returns the text
\* "Cypher query error: <message>" followed by the check-your-syntax hint,
\* where <message> is the thrown Error's message as it is (or String(value)
\* for a thrown non-Error).
C24_NoRetry ==
    tool = "execute_cypher" =>
        /\ Len(calls) = 1
        /\ calls[1].fn = "executeQuery"
        /\ calls[1].cypher = args.cypher
        /\ reply.kind = "throws" =>
              /\ outcome.status = "returned"
              /\ outcome.text = CypherErrorText
              /\ outcome.message =
                    IF reply.err.isError THEN reply.err.message
                    ELSE IF reply.err.value = Undef THEN Str(<<"undefined">>)
                    ELSE reply.err.value

\* C24 witness: the backend threw Error("timeout"); one query was issued and
\* the answer carries that message.
C24_Witness ==
    /\ tool = "execute_cypher"
    /\ reply = ThrowReply(ErrorObj(<<"timeout">>))
    /\ Len(calls) = 1
    /\ outcome = ReturnedError(CypherErrorText, Str(<<"timeout">>))

\* The content stored in the first row of the lookup's result.
StoredContent == reply.hits[1].f.content
ContentPresent == StoredContent.t = "string" /\ StoredContent.v # <<>>

\* C25: get_code_content issues one lookup query, for the given identifier
\* (with its single quotes doubled).  With no row returned the answer is the
\* "No node found with ID" message carrying the identifier, not the error
\* message.  With a row whose content is missing or empty the answer is the
\* one-line summary naming label, name and file, which has no code block.
\* The answer holds a code block only when content is present, and then the
\* block holds that content.
C25_LookupAnswer ==
    tool = "get_code_content" =>
        /\ Len(calls) = 1
        /\ calls[1].fn = "executeQuery"
        /\ calls[1].text = EscapeQuotes(args.nodeId)
        /\ (reply.kind = "node" /\ reply.hits = <<>>) =>
              /\ outcome.text = NotFoundText
              /\ outcome.message = Str(args.nodeId)
              /\ outcome.lines = <<>>
        /\ (reply.kind = "node" /\ reply.hits # <<>> /\ ~ContentPresent) =>
              /\ outcome.text = NoSourceText
              /\ outcome.lines = <<[label |-> Str(<<"Function">>), name |-> Str(<<"main">>),
                                    filePath |-> Str(<<"a.ts">>), startLine |-> EmptyStr,
                                    endLine |-> EmptyStr, content |-> EmptyStr]>>
        /\ (reply.kind = "node" /\ reply.hits # <<>> /\ ContentPresent) =>
              /\ outcome.text = CodeBlockText
              /\ outcome.lines[1].content = StoredContent
              /\ outcome.lines[1].startLine = Str(<<"1">>)
              /\ outcome.lines[1].endLine = Str(<<"9">>)
        /\ outcome.text = CodeBlockText =>
              reply.kind = "node" /\ reply.hits # <<>> /\ ContentPresent
        /\ outcome.text = CodeErrorText <=> reply.kind = "throws"
        /\ outcome.status = "returned"

\* C25 witness: the lookup returned a row, in column order, whose content is
\* the empty string; the answer is the summary.
C25_Witness ==
    /\ tool = "get_code_content"
    /\ reply.kind = "node"
    /\ reply.hits # <<>>
    /\ reply.hits[1].shape = "positional"
    /\ StoredContent = EmptyStr
    /\ outcome.text = NoSourceText
    /\ args.nodeId = <<"o", "'", "k">>
    /\ calls[1].text = <<"o", "'", "'", "k">>

\* The call id an upstream tool event carries: its tool_call_id if that is a
\* non-empty string, else its toolCallId if that is one, else none.
IsId(x) == x.t = "string" /\ x.v # <<>>
Carried(e) ==
    IF IsId(e.tool_call_id) THEN e.tool_call_id
    ELSE IF IsId(e.toolCallId) THEN e.toolCallId ELSE Undef
\* The position, among the chunks, of the chunk made from events[i].
ChunkIndex(i) == Cardinality({j \in 1..i : ExpectedType(events[j]) # ""})
MadeFromClock(id) == id.v # <<>> /\ Head(id.v) = "ts"

\* C26: the tool_call chunk of a start event carries the event's id, or, when
\* the event carries none, a non-empty id synthesized from the clock.  The
\* tool_result chunk of an end event carries the event's id, or, when the
\* event carries none, the empty string: never a synthesized id.  So for a
\* start and an end event that both carry no id the two chunks never match by
\* id, and for a start and an end event that carry the same id both chunks
\* carry exactly that id.
C26_ResultIdCarriedOrEmpty ==
    /\ \A i \in 1..Len(events) :
          LET k == ChunkIndex(i) IN
          /\ ExpectedType(events[i]) = "tool_call" =>
                /\ k <= Len(chunks)
                /\ chunks[k].type = "tool_call"
                /\ IF Carried(events[i]) # Undef
                   THEN chunks[k].toolCall.id = Carried(events[i])
                   ELSE MadeFromClock(chunks[k].toolCall.id)
          /\ ExpectedType(events[i]) = "tool_result" =>
                /\ k <= Len(chunks)
                /\ chunks[k].type = "tool_result"
                /\ chunks[k].toolCall.id =
                      IF Carried(events[i]) # Undef THEN Carried(events[i]) ELSE EmptyStr
                /\ ~MadeFromClock(chunks[k].toolCall.id)
    /\ \A i, j \in 1..Len(events) :
          (/\ i < j
           /\ ExpectedType(events[i]) = "tool_call"
           /\ ExpectedType(events[j]) = "tool_result") =>
              LET call == chunks[ChunkIndex(i)].toolCall.id
                  result == chunks[ChunkIndex(j)].toolCall.id
              IN /\ (Carried(events[i]) = Undef /\ Carried(events[j]) = Undef) =>
                        (result = EmptyStr /\ call # EmptyStr /\ call # result)
                 /\ (Carried(events[i]) # Undef /\ Carried(events[i]) = Carried(events[j])) =>
                        (call = Carried(events[i]) /\ result = Carried(events[i]))

\* C26 witness: a start and an end event without ids were translated; the
\* tool_call chunk has a clock-made id, the tool_result chunk the empty one.
C26_Witness ==
    /\ Len(events) >= 2
    /\ Len(chunks) >= 2
    /\ events[1] = ToolStart(Undef, Undef, Obj(<<"in">>))
    /\ events[2] = ToolEnd(Undef, Undef, Str(<<"out">>))
    /\ MadeFromClock(chunks[1].toolCall.id)
    /\ chunks[2].type = "tool_result"
    /\ chunks[2].toolCall.id = EmptyStr

\* The capabilities a call log names, in call order.
FnsOf(log) == [i \in 1..Len(log) |-> log[i].fn]
\* The call logs of execute_vector_cypher when the embedder is ready at entry,
\* and when it is not: each is a prefix of
\*   probe, isEmbedderReady, [initEmbedder, [initEmbedder,]] embedText, executeQuery.
OrdersWhenReady ==
    { <<"isEmbeddingReady">>,
      <<"isEmbeddingReady", "isEmbedderReady", "embedText">>,
      <<"isEmbeddingReady", "isEmbedderReady", "embedText", "executeQuery">> }
OrdersWhenNotReady ==
    { <<"isEmbeddingReady">>,
      <<"isEmbeddingReady", "isEmbedderReady", "initEmbedder">>,
      <<"isEmbeddingReady", "isEmbedderReady", "initEmbedder", "initEmbedder">>,
      <<"isEmbeddingReady", "isEmbedderReady", "initEmbedder", "embedText">>,
      <<"isEmbeddingReady", "isEmbedderReady", "initEmbedder", "embedText", "executeQuery">>,
      <<"isEmbeddingReady", "isEmbedderReady", "initEmbedder", "initEmbedder", "embedText">>,
      <<"isEmbeddingReady", "isEmbedderReady", "initEmbedder", "initEmbedder", "embedText",
        "executeQuery">> }
\* Whether the call at position i of the log went well.
WentWell(c) == c.result \in {"ok", "true", ""}

\* C27: a call of execute_vector_cypher uses its capabilities in a fixed order
\* with early exit: the readiness probe; then, only if the probe said ready
\* and the template holds the placeholder, the embedder: initialised only if
\* it is not ready at entry (a second time, on wasm, only after WebGPU was
\* found unavailable); then one embedText; then one executeQuery.  embedText
\* is not called after a failed initialisation, executeQuery is not called
\* after a failed initialisation or a failed embedding, and nothing is called
\* after executeQuery.
C27_CapabilityOrder ==
    [][(ToolInvoked /\ tool' = "execute_vector_cypher") =>
          LET log == calls'
              inits == {i \in 1..Len(log) : log[i].fn = "initEmbedder"}
              embeds == {i \in 1..Len(log) : log[i].fn = "embedText"}
              queries == {i \in 1..Len(log) : log[i].fn = "executeQuery"}
          IN /\ FnsOf(log) \in IF embedderReady THEN OrdersWhenReady ELSE OrdersWhenNotReady
             /\ (log[1].result # "true" \/ ~HasPlaceholder(args'.cypher)) <=> Len(log) = 1
             /\ embedderReady => inits = {}
             /\ Cardinality(embeds) <= 1
             /\ Cardinality(queries) <= 1
             \* a failed call is the last one, a successful one before
             \* executeQuery is not
             /\ \A i \in 1..Len(log) :
                   /\ (i < Len(log) /\ log[i].fn \in {"embedText"}) => WentWell(log[i])
                   /\ (i < Len(log) /\ log[i].fn = "initEmbedder") =>
                         \/ log[i].result = "ok"
                         \/ /\ log[i].result = "webgpu-unavailable"
                            /\ log[i].device = "default"
                            /\ log[i + 1].fn = "initEmbedder"
                            /\ log[i + 1].device = "wasm"
                   /\ (i = Len(log) /\ Len(log) > 1) =>
                         \/ log[i].fn = "executeQuery"
                         \/ log[i].fn = "embedText" /\ log[i].result = "rejects"
                         \/ log[i].fn = "initEmbedder" /\ log[i].result # "ok"
             /\ \A i \in inits : \A j \in inits :
                   i < j => log[i].result = "webgpu-unavailable"
             /\ queries # {} =>
                   /\ \A i \in embeds : log[i].result = "ok"
                   /\ embeds # {}]_vars

\* C27 witness: the embedder was not ready, WebGPU was unavailable, the wasm
\* initialisation succeeded, and embedText and executeQuery followed.
C27_Witness ==
    /\ VectorTool
    /\ FnsOf(calls) = <<"isEmbeddingReady", "isEmbedderReady", "initEmbedder", "initEmbedder",
                        "embedText", "executeQuery">>
    /\ calls[3].result = "webgpu-unavailable"
    /\ calls[4].device = "wasm"
    /\ calls[4].result = "ok"
    /\ calls[5].result = "ok"

\* The number of connections a listed group stands for: those shown plus the
\* N of its "and N more".
ConnectionCount(line) ==
    Len(line.connections) + (IF line.more = <<>> THEN 0 ELSE line.more[1])
RECURSIVE TotalConnections(_, _)
TotalConnections(lines, n) ==
    IF n = 0 THEN 0 ELSE TotalConnections(lines, n - 1) + ConnectionCount(lines[n])

\* C28: grouping in semantic_search_with_context loses and duplicates no row:
\* for r returned rows (mappings or sequences) the connection counts of the
\* groups add up to r, every row belongs to exactly one group, which holds as
\* many connections as there are rows of its match, and the header reports
\* the number of distinct match ids and r.
C28_GroupingKeepsEveryRow ==
    (/\ ContextTool
     /\ reply.kind = "hits"
     /\ reply.hits # <<>>
     /\ \A i \in 1..Len(reply.hits) : reply.hits[i].shape # "null") =>
        LET rows == reply.hits
            r == Len(rows)
            lines == outcome.lines
        IN /\ TotalConnections(lines, Len(lines)) = r
           /\ \A i \in 1..r :
                 LET mine == {g \in 1..Len(lines) :
                                lines[g].name = JSString(Field(rows[i], "matchName", 1))}
                 IN /\ Cardinality(mine) = 1
                    /\ \A g \in mine :
                          ConnectionCount(lines[g]) =
                              Cardinality(PositionsOf(rows, MatchIdOf(rows[i])))
           /\ outcome.groups = Cardinality({MatchIdOf(rows[i]) : i \in 1..r})
           /\ outcome.groups = Len(lines)
           /\ outcome.n = r

\* C28 witness: sixteen rows, the first of match "B" and fifteen of match "A",
\* in both row forms: two groups standing for one and fifteen connections.
C28_Witness ==
    /\ ContextTool
    /\ reply.kind = "hits"
    /\ Len(reply.hits) = ConnectionCap + 1
    /\ MatchIdOf(reply.hits[1]) = Str(<<"B">>)
    /\ \A i \in 2..Len(reply.hits) : MatchIdOf(reply.hits[i]) = Str(<<"A">>)
    /\ Len(outcome.lines) = 2
    /\ ConnectionCount(outcome.lines[1]) = 1
    /\ ConnectionCount(outcome.lines[2]) = ConnectionCap
    /\ outcome.n = ConnectionCap + 1
    /\ outcome.groups = 2

==========================================================================
